---------------------------- MODULE Spec2Model ----------------------------
(***************************************************************************)
(* hexfetch-ui (src/main.go): the history dataset refresh                  *)
(* (updateLocalHEXJSON), the shared live-data cache (latestLiveData under  *)
(* liveDataMutex), the ConfigManager that broadcasts the polling           *)
(* frequency, and the ticker goroutines of main, createProfileTab and      *)
(* createLiveDataTab.                                                      *)
(***************************************************************************)
EXTENDS Integers, Sequences, FiniteSets, TLC

(***************************************************************************)
(* Bounds of the explored inputs.                                          *)
(***************************************************************************)
\* largest currentDay a history entry carries (days are 0..MaxDay)
MaxDay == 1
\* longest sequence the history endpoint returns, and longest stored sequence
\* a single run starts from
MaxLen == 2

Days == 0..MaxDay

\* The merge never inspects the three metric fields: two metric values keep
\* entries of the same day distinguishable.
Metrics == {0, 1}

\* frequencies the settings tab is given are 1..MaxFrequency
MaxFrequency == 1
\* live snapshots the live endpoint returns are numbered 0..MaxSnapshot
MaxSnapshot == 1
\* refreshTabs runs at most MaxRefresh times
MaxRefresh == 2

\* main.go:700
defaultLiveDataFrequency == 15

(***************************************************************************)
(* HEXJSONEntry / HEXJSON (main.go:670-677).                               *)
(***************************************************************************)
HEXJSONEntry(d, m) ==
    [CurrentDay |-> d, TshareRateHEX |-> m, DailyPayoutHEX |-> m, PricePulseX |-> m]

SeqsUpTo(S, n) == UNION {[1..k -> S] : k \in 0..n}

\* every body the history endpoint can return, up to the bounds
HEXJSON == SeqsUpTo({HEXJSONEntry(d, m) : d \in Days, m \in Metrics}, MaxLen)

\* the bodies whose entries all carry metric 0
HEXJSONDays == SeqsUpTo({HEXJSONEntry(d, 0) : d \in Days}, MaxLen)

(***************************************************************************)
(* data/hexjson.json on disk: absent, present but undecodable (truncated   *)
(* by a failed write), or holding an encoded HEXJSON.                      *)
(***************************************************************************)
NoFile == [exists |-> FALSE, valid |-> FALSE, data |-> <<>>]
CorruptFile == [exists |-> TRUE, valid |-> FALSE, data |-> <<>>]
DataFile(stored) == [exists |-> TRUE, valid |-> TRUE, data |-> stored]

VARIABLES
    hexjsonFile,    \* data/hexjson.json
    localData,      \* updateLocalHEXJSON: localData of the last run
    remoteData,     \* updateLocalHEXJSON: remoteData of the last run
    newEntries,     \* updateLocalHEXJSON: newEntries of the last run
    updateErr,      \* what the last run returned ("none" before the first)
    saveCalled,     \* whether the last run called saveLocalHEXJSON
    prevFile,       \* data/hexjson.json as the last run found it
    repeated,       \* the last two runs both returned nil and fetched the same body
    feedSorted      \* every body fetched so far was strictly descending by day

histVars == <<hexjsonFile, localData, remoteData, newEntries, updateErr,
              saveCalled, prevFile, repeated, feedSorted>>

VARIABLES
    latestLiveData, \* the cached LiveData (main.go:623)
    liveDataMutex,  \* the goroutine holding liveDataMutex, or Nobody
    lastStored,     \* the snapshot of the last completed write of the cache
    readsWhole      \* every read of the cache so far returned lastStored

cacheVars == <<latestLiveData, liveDataMutex, lastStored, readsWhole>>

VARIABLES
    cmFrequency,    \* configManager.config.LiveDataFrequency
    changeChans,    \* configManager.changeChans: the goroutines whose channel it holds
    chanBuf,        \* per subscriber, the notifications its one-slot channel holds
    dropped,        \* per subscriber: a send found its slot occupied since it last re-armed
                    \* on a notification (noted under noteDrops only)
    noteDrops,      \* whether the behaviour notes the dropped sends
    cmMu            \* the goroutines inside a method of configManager that hold cm.mu

cmData == <<cmFrequency, changeChans, chanBuf, dropped, noteDrops>>

cmVars == <<cmData, cmMu>>

VARIABLES
    pc,             \* per ticker goroutine, where it is
    ticker,         \* per ticker goroutine, the minutes its ticker is armed with (0: none)
    data,           \* the local `data` of the fetch ticker and of the Live Data ticker
    cancelled       \* per ticker goroutine, whether its context is cancelled

schedVars == <<pc, ticker, data, cancelled>>

VARIABLES
    mainPc,         \* where the main goroutine (startup, then the UI thread) is
    onStopped,      \* the poller whose cancel Lifecycle().SetOnStopped holds
    saveResult      \* how the last Save Frequency ended ("off": not noted)

\* the ticker goroutines of the tab sets refreshTabs has built
VARIABLES
    tabSets,        \* how many times refreshTabs has run
    tabPc,          \* per tab ticker goroutine of a tab set, where it is
    tabCancelled,   \* the tab ticker goroutines whose context is cancelled
    tabHook         \* the tab ticker goroutine whose cancel SetOnStopped holds

tabVars == <<tabSets, tabPc, tabCancelled, tabHook>>

mainVars == <<mainPc, onStopped, saveResult, tabVars>>

vars == <<histVars, cacheVars, cmVars, schedVars, mainVars>>

(***************************************************************************)
(* loadLocalHEXJSON (main.go:773-788): an absent file is an empty          *)
(* sequence, any other open or decode failure is an error.                 *)
(***************************************************************************)
LoadFails(file, openFails) == openFails \/ (file.exists /\ ~file.valid)

LoadedData(file) == IF file.exists /\ file.valid THEN file.data ELSE <<>>

(***************************************************************************)
(* saveLocalHEXJSON (main.go:790-799): os.Create truncates the file, then  *)
(* the encoder writes it whole.  outcome "ok", "create" (os.Create failed, *)
(* file untouched) or "write" (truncated, then the write failed).          *)
(***************************************************************************)
SaveOutcomes == {"ok", "create", "write"}

SavedFile(file, toSave, outcome) ==
    CASE outcome = "ok" -> DataFile(toSave)
      [] outcome = "create" -> file
      [] OTHER -> CorruptFile

(***************************************************************************)
(* The loop of updateLocalHEXJSON (main.go:814-821): collect the entries   *)
(* of remoteData from its head while CurrentDay > localMaxDay, break at    *)
(* the first that is not.                                                  *)
(***************************************************************************)
RECURSIVE CollectFilter(_, _)
CollectFilter(localMaxDay, remote) ==
    IF Len(remote) = 0 THEN <<>>
    ELSE IF Head(remote).CurrentDay > localMaxDay
         THEN <<Head(remote)>> \o CollectFilter(localMaxDay, Tail(remote))
         ELSE CollectFilter(localMaxDay, Tail(remote))

RECURSIVE CollectGE(_, _)
CollectGE(localMaxDay, remote) ==
    IF Len(remote) = 0 THEN <<>>
    ELSE IF Head(remote).CurrentDay >= localMaxDay
         THEN <<Head(remote)>> \o CollectGE(localMaxDay, Tail(remote))
         ELSE <<>>

RECURSIVE CollectNewEntries(_, _)
CollectNewEntries(localMaxDay, remote) ==
    IF Len(remote) = 0 THEN <<>>
    ELSE IF Head(remote).CurrentDay > localMaxDay
         THEN <<Head(remote)>> \o CollectNewEntries(localMaxDay, Tail(remote))
         ELSE <<>>

\* main.go:823: updatedData := append(newEntries, localData...)
AppendedLocal(new, local) == local \o new

UpdatedData(new, local) == new \o local

\* main.go:810: the bootstrap test, len(localData) == 0
IsBootstrap(local) == Len(local) = 0

\* main.go:822: the guard of the save after a merge
SaveAlways(new) == TRUE

SaveAfterMerge(new) == Len(new) > 0

\* main.go:811: the bootstrap saves remoteData as it came
BootstrapFiltered(remote) == CollectNewEntries(0, remote)

BootstrapData(remote) == remote

\* newEntries as updateLocalHEXJSON computes them (none on the bootstrap path)
NewEntriesOf(local, remote) ==
    IF IsBootstrap(local) THEN <<>>
    ELSE CollectNewEntries(local[1].CurrentDay, remote)

\* what updateLocalHEXJSON hands to saveLocalHEXJSON, when it calls it
DataToSave(local, remote) ==
    IF IsBootstrap(local) THEN BootstrapData(remote)
    ELSE UpdatedData(NewEntriesOf(local, remote), local)

CallsSave(local, remote) ==
    IsBootstrap(local) \/ SaveAfterMerge(NewEntriesOf(local, remote))

StrictlyDescending(s) ==
    \A i \in 1..(Len(s) - 1) : s[i].CurrentDay > s[i + 1].CurrentDay

(***************************************************************************)
(* updateLocalHEXJSON (main.go:801-827), one whole run against an endpoint *)
(* that answers with one of `bodies` or fails.                             *)
(***************************************************************************)
\* a run that saves remoteData whatever error it returns
UpdateReturnsSaving(err, file, local, remote, new, saved) ==
    /\ updateErr' = err
    /\ hexjsonFile' = IF err = "nil" THEN file ELSE DataFile(remote)
    /\ prevFile' = hexjsonFile
    /\ repeated' = (updateErr = "nil" /\ err = "nil" /\ remote = remoteData)
    /\ localData' = local
    /\ remoteData' = remote
    /\ newEntries' = new
    /\ saveCalled' = (saved \/ err # "nil")

\* what a run leaves: its return value, the file and its locals
UpdateReturns(err, file, local, remote, new, saved) ==
    /\ updateErr' = err
    /\ hexjsonFile' = file
    /\ prevFile' = hexjsonFile
    /\ repeated' = (updateErr = "nil" /\ err = "nil" /\ remote = remoteData)
    /\ localData' = local
    /\ remoteData' = remote
    /\ newEntries' = new
    /\ saveCalled' = saved

UpdateLocalHEXJSON(bodies) ==
    \/ \* loadLocalHEXJSON fails: return err (803-805)
       /\ \E openFails \in BOOLEAN : LoadFails(hexjsonFile, openFails)
       /\ UpdateReturns("load", hexjsonFile, <<>>, <<>>, <<>>, FALSE)
       /\ UNCHANGED feedSorted
    \/ \* fetchHEXJSON fails: return err (807-809)
       /\ ~LoadFails(hexjsonFile, FALSE)
       /\ UpdateReturns("fetch", hexjsonFile, LoadedData(hexjsonFile), <<>>, <<>>, FALSE)
       /\ UNCHANGED feedSorted
    \/ \* both succeed: bootstrap or merge (810-826)
       /\ ~LoadFails(hexjsonFile, FALSE)
       /\ \E remote \in bodies :
            LET local == LoadedData(hexjsonFile)
                new == NewEntriesOf(local, remote)
            IN /\ feedSorted' = (feedSorted /\ StrictlyDescending(remote))
               /\ IF CallsSave(local, remote)
                  THEN \E outcome \in SaveOutcomes :
                         UpdateReturns(IF outcome = "ok" THEN "nil" ELSE "save",
                                       SavedFile(hexjsonFile, DataToSave(local, remote), outcome),
                                       local, remote, new, TRUE)
                  ELSE UpdateReturns("nil", hexjsonFile, local, remote, new, FALSE)

InitLocals ==
    /\ localData = <<>>
    /\ remoteData = <<>>
    /\ newEntries = <<>>
    /\ updateErr = "none"
    /\ saveCalled = FALSE
    /\ prevFile = hexjsonFile
    /\ repeated = FALSE
    /\ feedSorted = TRUE

(***************************************************************************)
(* LiveData (main.go:679-686).  The endpoint's snapshots are numbered; all *)
(* six fields of snapshot k carry k.                                       *)
(***************************************************************************)
LiveData(k) ==
    [PricePulsechain |-> k, TsharePricePulsechain |-> k,
     TshareRateHEXPulsechain |-> k, PenaltiesHEXPulsechain |-> k,
     PayoutPerTsharePulsechain |-> k, Beat |-> k]

ZeroLiveData == LiveData(0)

Snapshots == {LiveData(k) : k \in 0..MaxSnapshot}

\* a struct assignment half done: the first three fields of src copied over dst
HalfCopied(dst, src) ==
    [dst EXCEPT !.PricePulsechain = src.PricePulsechain,
                !.TsharePricePulsechain = src.TsharePricePulsechain,
                !.TshareRateHEXPulsechain = src.TshareRateHEXPulsechain]

\* price := latestLiveData.TsharePricePulsechain (main.go:954, 970)
PriceOnly(d) == [ZeroLiveData EXCEPT !.TsharePricePulsechain = d.TsharePricePulsechain]

(***************************************************************************)
(* The goroutines: main (startup, then the UI thread), the fetch ticker    *)
(* started in main, and the tickers of the Profile and Live Data tabs.     *)
(***************************************************************************)
Nobody == -1
Fetcher == 0
ProfilePoller == 1
LiveDataPoller == 2

Pollers == {ProfilePoller, LiveDataPoller}
Tickers == {Fetcher} \cup Pollers

\* the goroutines with a local `data LiveData` (main.go:1503, 1156); the
\* Profile ticker copies one field into `price` for its UI update only
DataHolders == {Fetcher, LiveDataPoller}

Frequencies == (1..MaxFrequency) \cup {defaultLiveDataFrequency}

(***************************************************************************)
(* settings/config.json and loadConfig (main.go:857-875), with main's      *)
(* fallback when loadConfig fails (main.go:1476-1480).                     *)
(***************************************************************************)
NoConfig == [exists |-> FALSE, valid |-> FALSE, value |-> 0]
CorruptConfig == [exists |-> TRUE, valid |-> FALSE, value |-> 0]
ConfigOf(v) == [exists |-> TRUE, valid |-> TRUE, value |-> v]

\* the files the model starts with: none, one that does not open or decode,
\* and decoded ones holding a negative, a zero or a positive value
ConfigFiles == {NoConfig, CorruptConfig} \cup {ConfigOf(v) : v \in (-1)..MaxFrequency}

LoadConfigFails(file) == file.exists /\ ~file.valid

\* the decoded value returned as it is, an absent file giving the zero Config
LoadConfigRaw(file) == file.value

LoadConfig(file) ==
    IF ~file.exists THEN defaultLiveDataFrequency
    ELSE IF file.value <= 0 THEN defaultLiveDataFrequency
    ELSE file.value

StartupFrequency(file) ==
    IF LoadConfigFails(file) THEN defaultLiveDataFrequency ELSE LoadConfig(file)

(***************************************************************************)
(* liveDataMutex.Lock() (main.go:953, 969, 1134, 1155, 1488, 1507) lets    *)
(* the caller in when nobody holds the mutex.                              *)
(***************************************************************************)
MutexIgnored(holder) == TRUE

MutexFree(holder) == holder = Nobody

\* a read of the cache returned value; the last completed write left expected
ReadNoted(value, expected) == readsWhole' = (readsWhole /\ value = expected)

(***************************************************************************)
(* The ticker goroutines (main.go:1494-1520, 960-987, 1146-1183).  A step  *)
(* that only touches the goroutine's own locals is taken together with the *)
(* step before it.                                                         *)
(***************************************************************************)
\* the main goroutine, which is the UI thread once the app runs
UIThread == 3

\* cm.mu is a sync.RWMutex: SetLiveDataFrequency (the main goroutine) and
\* Subscribe take Lock(), GetLiveDataFrequency takes RLock()
\* (main.go:639, 645, 661)
CmWriter(g) == g = UIThread \/ pc[g] = "subscribe"

\* cm.mu.RLock() lets g in when no other goroutine holds the write lock
RLockFree(g) == \A h \in cmMu \ {g} : ~CmWriter(h)

\* cm.mu.Lock() lets g in when no other goroutine holds cm.mu
LockFree(g) == cmMu \subseteq {g}

\* the method returns without its deferred unlock
StillLocked(g) == cmMu

\* defer cm.mu.RUnlock() / defer cm.mu.Unlock() (main.go:640, 646, 662)
Unlocked(g) == cmMu \ {g}

\* frequency := GetLiveDataFrequency(); ticker := time.NewTicker(frequency)
TickerStart(s) ==
    /\ pc[s] = "start"
    /\ RLockFree(s)
    /\ cmMu' = Unlocked(s)
    /\ ticker' = [ticker EXCEPT ![s] = cmFrequency]
    /\ pc' = [pc EXCEPT ![s] = "subscribe"]
    /\ UNCHANGED <<histVars, cacheVars, cmData, data, cancelled, mainVars>>

\* changeCh := configManager.Subscribe() (main.go:660-667)
Subscribe(s) ==
    /\ pc[s] = "subscribe"
    /\ LockFree(s)
    /\ changeChans' = changeChans \cup {s}
    /\ cmMu' = Unlocked(s)
    /\ pc' = [pc EXCEPT ![s] = "select"]
    /\ UNCHANGED <<histVars, cacheVars, cmFrequency, chanBuf, dropped, noteDrops,
                   ticker, data, cancelled, mainVars>>

\* the interval a ticker is reset with: frequency = GetLiveDataFrequency()
\* (main.go:1512, 1515, 976, 979, 1172, 1175)
StaleFrequency(s) == ticker[s]

RearmFrequency(s) == cmFrequency

\* case <-ticker.C of the fetch ticker: enter fetchLiveData (main.go:1502-1503)
FetcherTick ==
    /\ pc[Fetcher] = "select"
    /\ pc' = [pc EXCEPT ![Fetcher] = "fetch"]
    /\ UNCHANGED <<histVars, cacheVars, cmVars, ticker, data, cancelled, mainVars>>

\* the zero LiveData returned with the error stored in the cache
FetcherFetchFailedStores ==
    /\ pc[Fetcher] = "fetch"
    /\ latestLiveData' = ZeroLiveData
    /\ lastStored' = ZeroLiveData
    /\ pc' = [pc EXCEPT ![Fetcher] = "failed"]
    /\ UNCHANGED <<histVars, liveDataMutex, readsWhole, cmVars,
                   ticker, data, cancelled, mainVars>>

\* fetchLiveData returns an error (main.go:1503-1504)
FetcherFetchFailed ==
    /\ pc[Fetcher] = "fetch"
    /\ pc' = [pc EXCEPT ![Fetcher] = "failed"]
    /\ UNCHANGED <<histVars, cacheVars, cmVars, ticker, data, cancelled, mainVars>>

\* the error branch falling back to the default frequency
FetcherAfterErrorDefault ==
    /\ pc[Fetcher] = "failed"
    /\ RLockFree(Fetcher)
    /\ cmMu' = Unlocked(Fetcher)
    /\ ticker' = [ticker EXCEPT ![Fetcher] = defaultLiveDataFrequency]
    /\ pc' = [pc EXCEPT ![Fetcher] = "select"]
    /\ UNCHANGED <<histVars, cacheVars, cmData, data, cancelled, mainVars>>

\* the error is logged, then frequency = GetLiveDataFrequency();
\* ticker.Reset(frequency) (main.go:1505, 1512-1513)
FetcherAfterError ==
    /\ pc[Fetcher] = "failed"
    /\ RLockFree(Fetcher)
    /\ cmMu' = Unlocked(Fetcher)
    /\ ticker' = [ticker EXCEPT ![Fetcher] = RearmFrequency(Fetcher)]
    /\ pc' = [pc EXCEPT ![Fetcher] = "select"]
    /\ UNCHANGED <<histVars, cacheVars, cmData, data, cancelled, mainVars>>

\* fetchLiveData returns a snapshot; liveDataMutex.Lock(); the assignment
\* latestLiveData = data gets half way (main.go:1503, 1507-1508)
FetcherStoreBegin ==
    /\ pc[Fetcher] = "fetch"
    /\ MutexFree(liveDataMutex)
    /\ \E d \in Snapshots :
          /\ data' = [data EXCEPT ![Fetcher] = d]
          /\ latestLiveData' = HalfCopied(latestLiveData, d)
    /\ liveDataMutex' = Fetcher
    /\ pc' = [pc EXCEPT ![Fetcher] = "storing"]
    /\ UNCHANGED <<histVars, lastStored, readsWhole, cmVars,
                   ticker, cancelled, mainVars>>

\* the mutex released with the assignment left half way
FetcherStoreAbandoned ==
    /\ pc[Fetcher] = "storing"
    /\ liveDataMutex' = Nobody
    /\ pc' = [pc EXCEPT ![Fetcher] = "log"]
    /\ UNCHANGED <<histVars, latestLiveData, lastStored, readsWhole, cmVars,
                   ticker, data, cancelled, mainVars>>

\* the assignment completes; liveDataMutex.Unlock() (main.go:1508-1509)
FetcherStoreEnd ==
    /\ pc[Fetcher] = "storing"
    /\ latestLiveData' = data[Fetcher]
    /\ lastStored' = data[Fetcher]
    /\ liveDataMutex' = Nobody
    /\ pc' = [pc EXCEPT ![Fetcher] = "log"]
    /\ UNCHANGED <<histVars, readsWhole, cmVars, ticker, data, cancelled, mainVars>>

\* log.Println(..., latestLiveData.TsharePricePulsechain), after Unlock;
\* then frequency = GetLiveDataFrequency(); ticker.Reset(frequency)
\* (main.go:1510-1513)
FetcherLog ==
    /\ pc[Fetcher] = "log"
    /\ ReadNoted(PriceOnly(latestLiveData), PriceOnly(lastStored))
    /\ data' = [data EXCEPT ![Fetcher] = ZeroLiveData]
    /\ RLockFree(Fetcher)
    /\ cmMu' = Unlocked(Fetcher)
    /\ ticker' = [ticker EXCEPT ![Fetcher] = RearmFrequency(Fetcher)]
    /\ pc' = [pc EXCEPT ![Fetcher] = "select"]
    /\ UNCHANGED <<histVars, latestLiveData, liveDataMutex, lastStored, cmData,
                   cancelled, mainVars>>

\* what a tab's ticker copies out of the cache under the mutex
\* (main.go:969-971, 1155-1157)
Copied(s, cache) == IF s = ProfilePoller THEN PriceOnly(cache) ELSE cache

\* a tab's ticker that puts its copy back into the cache under the mutex
PollerTickStoring(s) ==
    /\ pc[s] = "select"
    /\ MutexFree(liveDataMutex)
    /\ data' = IF s \in DataHolders THEN [data EXCEPT ![s] = latestLiveData] ELSE data
    /\ ReadNoted(Copied(s, latestLiveData), Copied(s, lastStored))
    /\ latestLiveData' = Copied(s, latestLiveData)
    /\ lastStored' = Copied(s, latestLiveData)
    /\ pc' = [pc EXCEPT ![s] = "ui"]
    /\ UNCHANGED <<histVars, liveDataMutex, cmVars, ticker, cancelled, mainVars>>

\* case <-ticker.C of a tab's ticker: Lock, copy, Unlock
PollerTick(s) ==
    /\ pc[s] = "select"
    /\ MutexFree(liveDataMutex)
    /\ data' = IF s \in DataHolders THEN [data EXCEPT ![s] = latestLiveData] ELSE data
    /\ ReadNoted(Copied(s, latestLiveData), Copied(s, lastStored))
    /\ pc' = [pc EXCEPT ![s] = "ui"]
    /\ UNCHANGED <<histVars, latestLiveData, liveDataMutex, lastStored, cmVars,
                   ticker, cancelled, mainVars>>

\* fyne.DoAndWait(...) gets its turn on the UI thread; then
\* frequency = GetLiveDataFrequency(); ticker.Reset(frequency)
\* (main.go:972-977, 1158-1173)
PollerShow(s) ==
    /\ pc[s] = "ui"
    /\ mainPc = "run"
    /\ data' = IF s \in DataHolders THEN [data EXCEPT ![s] = ZeroLiveData] ELSE data
    /\ RLockFree(s)
    /\ cmMu' = Unlocked(s)
    /\ ticker' = [ticker EXCEPT ![s] = RearmFrequency(s)]
    /\ pc' = [pc EXCEPT ![s] = "select"]
    /\ UNCHANGED <<histVars, cacheVars, cmData, cancelled, mainVars>>

\* case <-changeCh: take the notification (main.go:1514, 978, 1174)
ChangeSignal(s) ==
    /\ pc[s] = "select"
    /\ chanBuf[s] > 0
    /\ chanBuf' = [chanBuf EXCEPT ![s] = @ - 1]
    /\ pc' = [pc EXCEPT ![s] = "changed"]
    /\ UNCHANGED <<histVars, cacheVars, cmFrequency, changeChans, dropped, noteDrops,
                   cmMu, ticker, data, cancelled, mainVars>>

\* the changeCh case running a tick's work as well
TickAfterChange(s) ==
    /\ pc[s] = "changed"
    /\ RLockFree(s)
    /\ cmMu' = Unlocked(s)
    /\ ticker' = [ticker EXCEPT ![s] = RearmFrequency(s)]
    /\ pc' = [pc EXCEPT ![s] = IF s = Fetcher THEN "fetch" ELSE "ui"]
    /\ dropped' = [dropped EXCEPT ![s] = FALSE]
    /\ UNCHANGED <<histVars, cacheVars, cmFrequency, changeChans, chanBuf, noteDrops,
                   data, cancelled, mainVars>>

\* frequency = GetLiveDataFrequency(); ticker.Reset(frequency) in the
\* changeCh case (main.go:1515-1517, 979-981, 1175-1177)
RearmAfterChange(s) ==
    /\ pc[s] = "changed"
    /\ RLockFree(s)
    /\ cmMu' = Unlocked(s)
    /\ ticker' = [ticker EXCEPT ![s] = RearmFrequency(s)]
    /\ pc' = [pc EXCEPT ![s] = "select"]
    /\ dropped' = [dropped EXCEPT ![s] = FALSE]
    /\ UNCHANGED <<histVars, cacheVars, cmFrequency, changeChans, chanBuf, noteDrops,
                   data, cancelled, mainVars>>

\* case <-ctx.Done(): return, the deferred ticker.Stop() runs (main.go:982-984, 1178-1180)
PollerDone(s) ==
    /\ pc[s] = "select"
    /\ cancelled[s]
    /\ pc' = [pc EXCEPT ![s] = "done"]
    /\ ticker' = [ticker EXCEPT ![s] = 0]
    /\ UNCHANGED <<histVars, cacheVars, cmVars, data, cancelled, mainVars>>

(***************************************************************************)
(* main (main.go:1462-1539): the startup steps.                            *)
(***************************************************************************)
\* the body the history endpoint answers the startup refresh with
StartupBodies == {<<HEXJSONEntry(0, 0)>>}

\* if err := updateLocalHEXJSON(); err != nil { log } (main.go:1466-1468)
MainUpdateHEXJSON ==
    /\ mainPc = "update"
    /\ UpdateLocalHEXJSON(StartupBodies)
    /\ mainPc' = "config"
    /\ UNCHANGED <<cacheVars, cmVars, schedVars, onStopped, saveResult, tabVars>>

\* loadConfig, the fallback, SetLiveDataFrequency with no subscriber yet
\* (main.go:1476-1481).  settings/config.json is read here only, so what it
\* holds is an input of this step.  The locals of the refresh are gone.
MainLoadConfig ==
    /\ mainPc = "config"
    /\ \E file \in ConfigFiles : cmFrequency' = StartupFrequency(file)
    /\ mainPc' = "fetch"
    /\ localData' = <<>>
    /\ remoteData' = <<>>
    /\ newEntries' = <<>>
    /\ updateErr' = "none"
    /\ saveCalled' = FALSE
    /\ UNCHANGED <<hexjsonFile, prevFile, repeated, feedSorted,
                   cacheVars, changeChans, chanBuf, dropped, noteDrops, cmMu,
                   schedVars, onStopped, saveResult, tabVars>>

\* the initial fetchLiveData and, on success, the store under the mutex
\* (main.go:1484-1491); no other goroutine runs yet
MainInitialFetch ==
    /\ mainPc = "fetch"
    /\ \/ UNCHANGED <<latestLiveData, lastStored>>
       \/ \E d \in Snapshots : latestLiveData' = d /\ lastStored' = d
    /\ mainPc' = "go"
    /\ UNCHANGED <<histVars, liveDataMutex, readsWhole, cmVars,
                   schedVars, onStopped, saveResult, tabVars>>

\* go func() { ... }() (main.go:1494)
MainStartFetcher ==
    /\ mainPc = "go"
    /\ pc' = [pc EXCEPT ![Fetcher] = "start"]
    /\ mainPc' = "profileTab"
    /\ UNCHANGED <<histVars, cacheVars, cmVars, ticker, data, cancelled,
                   onStopped, saveResult, tabVars>>

\* createProfileTab: read the price under the mutex, start the ticker
\* goroutine, SetOnStopped(cancel) (main.go:953-990)
CreateProfileTab ==
    /\ mainPc = "profileTab"
    /\ MutexFree(liveDataMutex)
    /\ ReadNoted(PriceOnly(latestLiveData), PriceOnly(lastStored))
    /\ pc' = [pc EXCEPT ![ProfilePoller] = "start"]
    /\ onStopped' = ProfilePoller
    /\ mainPc' = "liveDataTab"
    /\ UNCHANGED <<histVars, latestLiveData, liveDataMutex, lastStored, cmVars,
                   ticker, data, cancelled, saveResult, tabVars>>

\* createLiveDataTab: read the snapshot under the mutex, start the ticker
\* goroutine, SetOnStopped(cancel) (main.go:1134-1186)
CreateLiveDataTab ==
    /\ mainPc = "liveDataTab"
    /\ MutexFree(liveDataMutex)
    /\ ReadNoted(latestLiveData, lastStored)
    /\ pc' = [pc EXCEPT ![LiveDataPoller] = "start"]
    /\ onStopped' = LiveDataPoller
    /\ mainPc' = "run"
    /\ UNCHANGED <<histVars, latestLiveData, liveDataMutex, lastStored, cmVars,
                   ticker, data, cancelled, saveResult, tabVars>>

(***************************************************************************)
(* The UI thread: the Save Frequency button (main.go:1413-1427) with       *)
(* saveConfig (877-886) and SetLiveDataFrequency (644-658), and the app    *)
(* stopping.                                                               *)
(***************************************************************************)
\* the texts typed into the frequency entry: a positive integer, or
\* something strconv.Atoi rejects or that is not positive (0 stands for both)
FrequencyInputs == Frequencies \cup {0}

\* main.go:1415: the input parsed and is positive
ValidFrequency(f) == f > 0

\* how a Save Frequency ended, noted in the behaviours that note it
NoteSave(result) == saveResult' = IF saveResult = "off" THEN "off" ELSE result

\* a send that is queued behind the notification the channel holds
QueuedSend(held) == held + 1

\* select { case ch <- struct{}{}: default: }: what the subscriber's channel
\* holds after the attempt (main.go:651-656)
NonBlockingSend(held) == IF held = 0 THEN 1 ELSE held

\* the sends made without the default case: each waits for an empty slot
NotifyBlocking ==
    /\ \A s \in changeChans : chanBuf[s] = 0
    /\ chanBuf' = [s \in Tickers |-> IF s \in changeChans THEN 1 ELSE chanBuf[s]]
    /\ UNCHANGED dropped

\* for i, ch := range cm.changeChans: one send attempt per channel
\* (main.go:650-657)
NotifySubscribers ==
    /\ chanBuf' = [s \in Tickers |->
                      IF s \in changeChans THEN NonBlockingSend(chanBuf[s]) ELSE chanBuf[s]]
    /\ dropped' = [s \in Tickers |->
                      dropped[s] \/ (noteDrops /\ s \in changeChans /\ chanBuf[s] > 0)]

\* SetLiveDataFrequency under cm.mu: store the value, then one send attempt
\* per channel of cm.changeChans (main.go:644-658).  No send blocks and no
\* other goroutine gets cm.mu before the return, so the call is one step.
SetLiveDataFrequency(minutes) ==
    /\ LockFree(UIThread)
    /\ cmFrequency' = minutes
    /\ NotifySubscribers
    /\ cmMu' = Unlocked(UIThread)
    /\ UNCHANGED <<changeChans, noteDrops>>

\* the handler going on to SetLiveDataFrequency with the input it refused
SaveFrequencyUnchecked ==
    /\ mainPc = "run"
    /\ \E f \in FrequencyInputs, outcome \in SaveOutcomes :
          \/ ~ValidFrequency(f) /\ NoteSave("invalid") /\ SetLiveDataFrequency(f)
          \/ ValidFrequency(f) /\ outcome # "ok" /\ NoteSave("failed")
                               /\ SetLiveDataFrequency(f)
    /\ UNCHANGED <<histVars, cacheVars, schedVars, mainPc, onStopped, tabVars>>

\* the input is refused, or saveConfig fails: a dialog, nothing is set
\* (main.go:1414-1424)
SaveFrequencyRefused ==
    /\ mainPc = "run"
    /\ \E f \in FrequencyInputs, outcome \in SaveOutcomes :
          \/ ~ValidFrequency(f) /\ NoteSave("invalid")
          \/ ValidFrequency(f) /\ outcome # "ok" /\ NoteSave("failed")
    /\ UNCHANGED <<histVars, cacheVars, cmVars, schedVars, mainPc, onStopped, tabVars>>

\* the input parses as a positive integer and saveConfig succeeds:
\* SetLiveDataFrequency, then the success dialog (main.go:1414-1426)
SaveFrequency ==
    /\ mainPc = "run"
    /\ \E f \in FrequencyInputs : ValidFrequency(f) /\ SetLiveDataFrequency(f)
    /\ NoteSave("set")
    /\ UNCHANGED <<histVars, cacheVars, schedVars, mainPc, onStopped, tabVars>>

\* the app stops: the one function Lifecycle().SetOnStopped holds is called
\* (main.go:990, 1186)
AppStopped ==
    /\ mainPc = "run"
    /\ mainPc' = "stopped"
    /\ cancelled' = [cancelled EXCEPT ![onStopped] = TRUE]
    /\ UNCHANGED <<histVars, cacheVars, cmVars, pc, ticker, data, onStopped, saveResult, tabVars>>

(***************************************************************************)
(* The tab sets (main.go:1526-1536).  Every refreshTabs builds a Profile   *)
(* tab and a Live Data tab anew; a tab ticker goroutine is named by its    *)
(* tab and by the number of the refreshTabs call that started it.          *)
(***************************************************************************)
TabTickers == Pollers \X (1..MaxRefresh)

NoTab == <<Nobody, 0>>

InitTabs ==
    /\ tabSets = 0
    /\ tabPc = [i \in TabTickers |-> "none"]
    /\ tabCancelled = {}
    /\ tabHook = NoTab

(***************************************************************************)
(* Spec: the program from its start.                                       *)
(***************************************************************************)
programVars == <<cacheVars, cmVars, schedVars, mainVars>>

InitGoroutines ==
    /\ latestLiveData = ZeroLiveData
    /\ liveDataMutex = Nobody
    /\ lastStored = ZeroLiveData
    /\ readsWhole = TRUE
    /\ cmFrequency = defaultLiveDataFrequency
    /\ changeChans = {}
    /\ chanBuf = [s \in Tickers |-> 0]
    /\ dropped = [s \in Tickers |-> FALSE]
    /\ cmMu = {}
    /\ pc = [s \in Tickers |-> "none"]
    /\ ticker = [s \in Tickers |-> 0]
    /\ data = [s \in DataHolders |-> ZeroLiveData]
    /\ cancelled = [s \in Tickers |-> FALSE]
    /\ onStopped = ProfilePoller
    /\ InitTabs

InitProgram ==
    InitGoroutines /\ mainPc = "update" /\ noteDrops = FALSE /\ saveResult = "off"

Init == hexjsonFile = NoFile /\ InitLocals /\ InitProgram

Next ==
    \/ MainUpdateHEXJSON
    \/ MainLoadConfig
    \/ MainInitialFetch
    \/ MainStartFetcher
    \/ CreateProfileTab
    \/ CreateLiveDataTab
    \/ SaveFrequencyRefused
    \/ SaveFrequency
    \/ AppStopped
    \/ FetcherTick
    \/ FetcherFetchFailed
    \/ FetcherAfterError
    \/ FetcherStoreBegin
    \/ FetcherStoreEnd
    \/ FetcherLog
    \/ \E s \in Tickers :
          \/ TickerStart(s)
          \/ Subscribe(s)
          \/ ChangeSignal(s)
          \/ RearmAfterChange(s)
    \/ \E s \in Pollers :
          \/ PollerTick(s)
          \/ PollerShow(s)
          \/ PollerDone(s)

Spec == Init /\ [][Next]_vars

(***************************************************************************)
(* SpecBroadcast: the program from the point where its startup refresh has *)
(* returned a fetch error (there is no dataset), noting the sends that     *)
(* SetLiveDataFrequency drops.                                             *)
(***************************************************************************)
InitBroadcast ==
    /\ hexjsonFile = NoFile
    /\ localData = <<>> /\ remoteData = <<>> /\ newEntries = <<>>
    /\ updateErr = "fetch"
    /\ saveCalled = FALSE
    /\ prevFile = NoFile
    /\ repeated = FALSE
    /\ feedSorted = TRUE
    /\ InitGoroutines
    /\ mainPc = "config"
    /\ noteDrops = TRUE
    /\ saveResult = "off"

NextBroadcast ==
    \/ MainLoadConfig
    \/ MainInitialFetch
    \/ MainStartFetcher
    \/ CreateProfileTab
    \/ CreateLiveDataTab
    \/ SaveFrequencyRefused
    \/ SaveFrequency
    \/ AppStopped
    \/ FetcherTick
    \/ FetcherFetchFailed
    \/ FetcherAfterError
    \/ FetcherStoreBegin
    \/ FetcherStoreEnd
    \/ FetcherLog
    \/ \E s \in Tickers :
          \/ TickerStart(s)
          \/ Subscribe(s)
          \/ ChangeSignal(s)
          \/ RearmAfterChange(s)
    \/ \E s \in Pollers :
          \/ PollerTick(s)
          \/ PollerShow(s)
          \/ PollerDone(s)

SpecBroadcast == InitBroadcast /\ [][NextBroadcast]_vars

(***************************************************************************)
(* SpecSettings: the program from the same point, noting how each Save     *)
(* Frequency ended.                                                        *)
(***************************************************************************)
InitSettings ==
    /\ hexjsonFile = NoFile
    /\ localData = <<>> /\ remoteData = <<>> /\ newEntries = <<>>
    /\ updateErr = "fetch"
    /\ saveCalled = FALSE
    /\ prevFile = NoFile
    /\ repeated = FALSE
    /\ feedSorted = TRUE
    /\ InitGoroutines
    /\ mainPc = "config"
    /\ noteDrops = FALSE
    /\ saveResult = "none"

NextSettings == NextBroadcast

SpecSettings == InitSettings /\ [][NextSettings]_vars

(***************************************************************************)
(* SpecLocks: the program from its start, with the methods of              *)
(* configManager taken in two steps, so that there are states in which a   *)
(* goroutine is inside one of them and holds cm.mu.                        *)
(***************************************************************************)
\* where the next statement of a ticker goroutine is GetLiveDataFrequency()
\* (main.go:1495, 1512, 1515, 961, 979, 1147, 1175)
GetPositions == {"start", "failed", "changed"}

\* GetLiveDataFrequency: cm.mu.RLock() (main.go:639)
GetLiveDataFrequencyRLock(s) ==
    /\ pc[s] \in GetPositions
    /\ s \notin cmMu
    /\ RLockFree(s)
    /\ cmMu' = cmMu \cup {s}
    /\ UNCHANGED <<histVars, cacheVars, cmData, schedVars, mainVars>>

\* Subscribe: cm.mu.Lock() (main.go:661)
SubscribeLock(s) ==
    /\ pc[s] = "subscribe"
    /\ s \notin cmMu
    /\ LockFree(s)
    /\ cmMu' = cmMu \cup {s}
    /\ UNCHANGED <<histVars, cacheVars, cmData, schedVars, mainVars>>

\* main: loadConfig, then SetLiveDataFrequency up to the store: cm.mu.Lock();
\* cm.config.LiveDataFrequency = frequency (main.go:1476-1481, 645-647)
MainSetLock ==
    /\ mainPc = "config"
    /\ LockFree(UIThread)
    /\ \E file \in ConfigFiles : cmFrequency' = StartupFrequency(file)
    /\ cmMu' = cmMu \cup {UIThread}
    /\ mainPc' = "set"
    /\ localData' = <<>>
    /\ remoteData' = <<>>
    /\ newEntries' = <<>>
    /\ updateErr' = "none"
    /\ saveCalled' = FALSE
    /\ UNCHANGED <<hexjsonFile, prevFile, repeated, feedSorted,
                   cacheVars, changeChans, chanBuf, dropped, noteDrops,
                   schedVars, onStopped, saveResult, tabVars>>

\* the rest of that call: the sends, the deferred cm.mu.Unlock()
\* (main.go:650-658)
MainSetUnlock ==
    /\ mainPc = "set"
    /\ NotifySubscribers
    /\ cmMu' = Unlocked(UIThread)
    /\ mainPc' = "fetch"
    /\ UNCHANGED <<histVars, cacheVars, cmFrequency, changeChans, noteDrops,
                   schedVars, onStopped, saveResult, tabVars>>

\* Save Frequency with a positive integer and saveConfig succeeding, up to
\* the store inside SetLiveDataFrequency (main.go:1414-1425, 645-647)
SaveFrequencyLock ==
    /\ mainPc = "run"
    /\ LockFree(UIThread)
    /\ \E f \in FrequencyInputs : ValidFrequency(f) /\ cmFrequency' = f
    /\ cmMu' = cmMu \cup {UIThread}
    /\ mainPc' = "notify"
    /\ UNCHANGED <<histVars, cacheVars, changeChans, chanBuf, dropped, noteDrops,
                   schedVars, onStopped, saveResult, tabVars>>

\* the rest of that call: the sends, the deferred cm.mu.Unlock(), and the
\* success dialog (main.go:650-658, 1426)
SaveFrequencyUnlock ==
    /\ mainPc = "notify"
    /\ NotifySubscribers
    /\ cmMu' = Unlocked(UIThread)
    /\ mainPc' = "run"
    /\ NoteSave("set")
    /\ UNCHANGED <<histVars, cacheVars, cmFrequency, changeChans, noteDrops,
                   schedVars, onStopped, tabVars>>

\* the ticker goroutines that run in SpecLocks: the one that fetches and the
\* Live Data tab's; the Profile tab's goroutine is started and not scheduled
LockTickers == {Fetcher, LiveDataPoller}

NextLocks ==
    \/ MainUpdateHEXJSON
    \/ MainLoadConfig
    \/ MainSetLock
    \/ MainSetUnlock
    \/ MainInitialFetch
    \/ MainStartFetcher
    \/ CreateProfileTab
    \/ CreateLiveDataTab
    \/ SaveFrequencyRefused
    \/ SaveFrequency
    \/ SaveFrequencyLock
    \/ SaveFrequencyUnlock
    \/ AppStopped
    \/ FetcherTick
    \/ FetcherFetchFailed
    \/ FetcherAfterError
    \/ FetcherStoreBegin
    \/ FetcherStoreEnd
    \/ FetcherLog
    \/ \E s \in LockTickers :
          \/ GetLiveDataFrequencyRLock(s)
          \/ TickerStart(s)
          \/ SubscribeLock(s)
          \/ Subscribe(s)
          \/ ChangeSignal(s)
          \/ RearmAfterChange(s)
    \/ \E s \in LockTickers \cap Pollers :
          \/ PollerTick(s)
          \/ PollerShow(s)
          \/ PollerDone(s)

SpecLocks == Init /\ [][NextLocks]_vars

\* SpecLocksFair: a goroutine that can run does run, and a goroutine waiting
\* for cm.mu gets it when it is free again and again (sync.RWMutex does not
\* starve a waiter); nothing is assumed of the user or of the endpoint.
LocksFairness ==
    /\ WF_vars(MainSetUnlock)
    /\ WF_vars(SaveFrequencyUnlock)
    /\ SF_vars(FetcherAfterError)
    /\ SF_vars(FetcherLog)
    /\ \A s \in LockTickers :
          /\ SF_vars(TickerStart(s))
          /\ SF_vars(Subscribe(s))
          /\ SF_vars(RearmAfterChange(s))

SpecLocksFair == Init /\ [][NextLocks]_vars /\ LocksFairness

(***************************************************************************)
(* SpecTabs: the tab sets of one run.  main calls refreshTabs once         *)
(* (main.go:1538); the END button (main.go:1009), adding a miner           *)
(* (main.go:1406) and deleting one (main.go:1439) call it again.  The tick *)
(* and change cases of a tab ticker's select lead back to the select and   *)
(* are not steps here.                                                     *)
(***************************************************************************)
StartedTabs(miners) ==
    {LiveDataPoller} \cup (IF miners THEN {ProfilePoller} ELSE {})

\* refreshTabs (main.go:1527-1536): createProfileTab starts a ticker
\* goroutine unless there are no miners (main.go:937-939, 957-990), then
\* createLiveDataTab starts one (main.go:1143-1186); each registers the
\* cancel of its new context with SetOnStopped, which holds one hook
RefreshTabs(miners) ==
    /\ mainPc \in {"profileTab", "run"}
    /\ tabSets < MaxRefresh
    /\ tabSets' = tabSets + 1
    /\ tabPc' = [i \in TabTickers |->
                    IF i[2] = tabSets + 1 /\ i[1] \in StartedTabs(miners)
                    THEN "start" ELSE tabPc[i]]
    /\ tabHook' = <<LiveDataPoller, tabSets + 1>>
    /\ mainPc' = "run"
    /\ UNCHANGED <<histVars, cacheVars, cmVars, schedVars, onStopped, saveResult,
                   tabCancelled>>

\* GetLiveDataFrequency and time.NewTicker (main.go:959-961, 1145-1147)
TabTickerStart(i) ==
    /\ tabPc[i] = "start"
    /\ tabPc' = [tabPc EXCEPT ![i] = "subscribe"]
    /\ UNCHANGED <<histVars, cacheVars, cmVars, schedVars, mainPc, onStopped,
                   saveResult, tabSets, tabCancelled, tabHook>>

\* configManager.Subscribe() (main.go:962, 1148): the channel is appended to
\* changeChans and nothing takes it out again (main.go:660-667)
TabSubscribe(i) ==
    /\ tabPc[i] = "subscribe"
    /\ tabPc' = [tabPc EXCEPT ![i] = "select"]
    /\ UNCHANGED <<histVars, cacheVars, cmVars, schedVars, mainPc, onStopped,
                   saveResult, tabSets, tabCancelled, tabHook>>

\* case <-ctx.Done() (main.go:981-983, 1179-1181)
TabTickerDone(i) ==
    /\ tabPc[i] = "select"
    /\ i \in tabCancelled
    /\ tabPc' = [tabPc EXCEPT ![i] = "done"]
    /\ UNCHANGED <<histVars, cacheVars, cmVars, schedVars, mainPc, onStopped,
                   saveResult, tabSets, tabCancelled, tabHook>>

\* the app stops: the one hook SetOnStopped holds is called
TabsStopped ==
    /\ mainPc = "run"
    /\ mainPc' = "stopped"
    /\ tabCancelled' = tabCancelled \cup ({tabHook} \cap TabTickers)
    /\ UNCHANGED <<histVars, cacheVars, cmVars, schedVars, onStopped, saveResult,
                   tabSets, tabPc, tabHook>>

InitTabSets ==
    /\ hexjsonFile = NoFile
    /\ InitLocals
    /\ InitGoroutines
    /\ mainPc = "profileTab"
    /\ noteDrops = FALSE
    /\ saveResult = "off"

NextTabs ==
    \/ \E miners \in BOOLEAN : RefreshTabs(miners)
    \/ \E i \in TabTickers : TabTickerStart(i)
    \/ \E i \in TabTickers : TabSubscribe(i)
    \/ \E i \in TabTickers : TabTickerDone(i)
    \/ TabsStopped

SpecTabs == InitTabSets /\ [][NextTabs]_vars

(***************************************************************************)
(* SpecRefresh: successive runs of the program from a first run that finds *)
(* no dataset, each doing its startup refresh (main.go:1466).              *)
(***************************************************************************)
InitRefresh == hexjsonFile = NoFile /\ InitLocals /\ InitProgram

RunRefresh == UpdateLocalHEXJSON(HEXJSONDays) /\ UNCHANGED programVars

NextRefresh == RunRefresh

SpecRefresh == InitRefresh /\ [][NextRefresh]_vars

(***************************************************************************)
(* SpecMerge: one run of updateLocalHEXJSON from every stored dataset a    *)
(* bootstrap can have written (any sequence the endpoint can return) or    *)
(* from no dataset, against every body.                                    *)
(***************************************************************************)
InitMerge ==
    /\ hexjsonFile \in {NoFile} \cup {DataFile(d) : d \in HEXJSON}
    /\ InitLocals
    /\ InitProgram

RunMerge ==
    updateErr = "none" /\ UpdateLocalHEXJSON(HEXJSON) /\ UNCHANGED programVars

NextMerge == RunMerge

SpecMerge == InitMerge /\ [][NextMerge]_vars

(***************************************************************************)
(* Properties of the history refresh.                                      *)
(***************************************************************************)
\* the run loaded and fetched without error, and any save it made succeeded
RunSucceeded == updateErr = "nil"

\* the dataset a file holds for the next load (none when absent)
Stored(file) == IF file.exists /\ file.valid THEN file.data ELSE <<>>

DayOf(s, i) == s[i].CurrentDay

\* length of the longest prefix of remote whose days all exceed day
NewerPrefixLen(day, remote) ==
    CHOOSE k \in 0..Len(remote) :
        /\ \A i \in 1..k : DayOf(remote, i) > day
        /\ k < Len(remote) => DayOf(remote, k + 1) <= day

NewerPrefix(day, remote) == SubSeq(remote, 1, NewerPrefixLen(day, remote))

IsSuffixOf(s, t) ==
    /\ Len(s) <= Len(t)
    /\ SubSeq(t, Len(t) - Len(s) + 1, Len(t)) = s

NoDuplicateDay(s) ==
    \A i, j \in 1..Len(s) : i # j => DayOf(s, i) # DayOf(s, j)

\* C1: for a non-empty local sequence and any remote sequence, the merged
\* dataset is the longest prefix of remote whose days all exceed the day of
\* local's first entry, in remote order, followed by local unchanged; entries
\* of remote behind the first non-newer one are never included.
C1_MergeIsNewerPrefixThenLocal ==
    (RunSucceeded /\ Len(localData) > 0) =>
        /\ newEntries = NewerPrefix(DayOf(localData, 1), remoteData)
        /\ Stored(hexjsonFile) = NewerPrefix(DayOf(localData, 1), remoteData) \o localData
        /\ Len(Stored(hexjsonFile)) = Len(newEntries) + Len(localData)

\* a run that dropped a remote entry newer than local's first day because it
\* came behind a non-newer one
C1_Witness ==
    /\ RunSucceeded
    /\ Len(localData) > 0
    /\ \E i \in 1..Len(remoteData) :
          /\ i > NewerPrefixLen(DayOf(localData, 1), remoteData) + 1
          /\ DayOf(remoteData, i) > DayOf(localData, 1)
    /\ Stored(hexjsonFile) = localData

\* C2: when local and remote are each strictly descending by day, the merged
\* dataset is strictly descending by day and holds no day twice.
C2_MergeKeepsStrictOrder ==
    (RunSucceeded /\ StrictlyDescending(localData) /\ StrictlyDescending(remoteData)) =>
        /\ StrictlyDescending(Stored(hexjsonFile))
        /\ NoDuplicateDay(Stored(hexjsonFile))

\* a merge of sorted inputs that prepended entries to a non-empty local
C2_Witness ==
    /\ RunSucceeded
    /\ Len(localData) > 0
    /\ StrictlyDescending(localData)
    /\ StrictlyDescending(remoteData)
    /\ Len(remoteData) > Len(newEntries)
    /\ Len(newEntries) > 0

\* C3 as claimed: whatever the endpoint returned, the persisted dataset is
\* descending by day with at most one entry per day.
C3_SortedWhateverRemote ==
    (hexjsonFile.exists /\ hexjsonFile.valid) =>
        /\ StrictlyDescending(hexjsonFile.data)
        /\ NoDuplicateDay(hexjsonFile.data)

\* C3 amended: as long as every body the endpoint returned was strictly
\* descending by day, the persisted dataset is descending by day with at
\* most one entry per day.
C3_SortedWhenFeedSorted ==
    (feedSorted /\ hexjsonFile.exists /\ hexjsonFile.valid) =>
        /\ StrictlyDescending(hexjsonFile.data)
        /\ NoDuplicateDay(hexjsonFile.data)

\* a later run, over sorted bodies only, that grew a stored dataset
C3_Witness ==
    /\ feedSorted
    /\ RunSucceeded
    /\ Len(Stored(prevFile)) > 0
    /\ Len(newEntries) > 0
    /\ Len(Stored(hexjsonFile)) > Len(Stored(prevFile))

\* local is up to date with remote: remote starts no later than local
UpToDate(local, remote) ==
    /\ Len(local) > 0
    /\ Len(remote) > 0 => DayOf(remote, 1) <= DayOf(local, 1)

\* C4: a run against the body the previous successful run fetched, or
\* against any body local is already up to date with, collects no entries
\* and leaves the persisted dataset exactly as it was.
C4_RemergeIsNoOp ==
    (RunSucceeded /\ (repeated \/ UpToDate(localData, remoteData))) =>
        /\ newEntries = <<>>
        /\ hexjsonFile = prevFile
        /\ Stored(hexjsonFile) = localData

\* the second of two runs against one non-empty body, the first of which
\* had stored it
C4_Witness ==
    /\ repeated
    /\ Len(remoteData) > 0
    /\ Len(localData) > 0
    /\ hexjsonFile = prevFile

\* C5: when the loaded local sequence is empty (no file, or a file holding
\* an empty sequence) the run stores the remote sequence unchanged.
C5_BootstrapStoresRemote ==
    (RunSucceeded /\ Len(localData) = 0) =>
        /\ saveCalled
        /\ hexjsonFile = DataFile(remoteData)

\* a bootstrap with no file that stored a body not sorted by day
C5_Witness ==
    /\ RunSucceeded
    /\ ~prevFile.exists
    /\ Len(remoteData) > 1
    /\ ~StrictlyDescending(remoteData)
    /\ hexjsonFile.data = remoteData

\* C6: a run that returns nil leaves the previously persisted sequence as an
\* unchanged suffix of the persisted sequence, and every entry it put in
\* front has a day greater than the previous first entry's.
C6_AppendOnly ==
    RunSucceeded =>
        LET old == Stored(prevFile)
            now == Stored(hexjsonFile)
        IN /\ IsSuffixOf(old, now)
           /\ Len(old) > 0 =>
                \A i \in 1..(Len(now) - Len(old)) : DayOf(now, i) > DayOf(old, 1)

\* a run that put entries in front of a stored non-empty dataset
C6_Witness ==
    /\ RunSucceeded
    /\ Len(Stored(prevFile)) > 0
    /\ Len(Stored(hexjsonFile)) > Len(Stored(prevFile))

\* the entries a run produced: all of remote on the bootstrap path
Produced == IF Len(localData) = 0 THEN remoteData ELSE newEntries

\* C7 as claimed: the file is written only when at least one new entry was
\* produced, an empty local sequence included.
C7_WriteOnlyWhenNewEntries == saveCalled => Len(Produced) > 0

\* C7 amended: with a non-empty local sequence the file is written only when
\* the merge collected at least one entry, and is left alone otherwise; with
\* an empty local sequence the run always writes the remote sequence, also
\* an empty one; a failed load or fetch writes nothing.
C7_WriteOnlyWhenNewOrBootstrap ==
    /\ saveCalled => (Len(localData) = 0 \/ Len(newEntries) > 0)
    /\ (updateErr \in {"nil", "save"} /\ Len(localData) = 0) => saveCalled
    /\ ~saveCalled => hexjsonFile = prevFile
    /\ updateErr \in {"load", "fetch"} => ~saveCalled

\* a merge into a non-empty local that found nothing new and wrote nothing
C7_Witness ==
    /\ RunSucceeded
    /\ Len(localData) > 0
    /\ Len(remoteData) > 0
    /\ newEntries = <<>>
    /\ ~saveCalled
    /\ hexjsonFile = prevFile


(***************************************************************************)
(* Properties of the shared live cache.                                    *)
(***************************************************************************)
\* C8: once a write of a snapshot to the cache has completed, every read of
\* the cache, by any goroutine, returns that snapshot until the next write
\* completes.
C8_ReadsReturnLastWrite ==
    /\ readsWhole
    /\ liveDataMutex = Nobody => latestLiveData = lastStored

\* the Live Data ticker holds a copy of a snapshot the fetch ticker stored
C8_Witness ==
    /\ pc[LiveDataPoller] = "ui"
    /\ data[LiveDataPoller] = lastStored
    /\ lastStored # ZeroLiveData
    /\ pc[Fetcher] \in {"log", "select"}

\* the goroutine is inside a statement that reads or writes latestLiveData
AccessesCache(s) == s = Fetcher /\ pc[s] \in {"storing", "log"}

\* C9 as claimed: every value read from the cache is whole (the zero
\* snapshot or one snapshot a completed write stored, in all fields), and
\* every read and write of the cache is made holding liveDataMutex.
C9_WholeAndUnderMutex ==
    /\ readsWhole
    /\ lastStored \in Snapshots
    /\ data[LiveDataPoller] \in Snapshots
    /\ \A s \in Tickers : AccessesCache(s) => liveDataMutex = s

(***************************************************************************)
(* Properties of the frequency broadcast.                                  *)
(***************************************************************************)
\* C10: when SetLiveDataFrequency returns, every subscribed goroutine
\* waiting in its select has a notification in its channel; a goroutine
\* with a notification can take it at once, whatever its ticker is armed
\* with; and a goroutine woken by a notification re-arms its ticker with
\* the frequency stored at that moment.
C10_FanOut ==
    /\ [][SaveFrequency =>
            \A s \in changeChans : pc[s] = "select" => chanBuf'[s] = 1]_vars
    /\ [][\A s \in Tickers :
            (pc[s] = "changed" /\ pc'[s] = "select") => ticker'[s] = cmFrequency']_vars
    /\ [](\A s \in Tickers :
            (pc[s] = "select" /\ chanBuf[s] > 0) => ENABLED ChangeSignal(s))

\* a subscriber woken by the notification while armed with the old frequency
C10_Witness ==
    \E s \in changeChans :
        /\ pc[s] = "changed"
        /\ ticker[s] # 0
        /\ ticker[s] # cmFrequency

\* C11: a subscriber for which SetLiveDataFrequency dropped a notification
\* (its slot was occupied by an earlier one it had not consumed) still has a
\* wake-up pending or under way, and whenever it comes back to its select it
\* has re-armed its ticker with the frequency stored at that moment, the one
\* of the latest call.
C11_LatestAfterDrops ==
    /\ [](\A s \in Tickers : dropped[s] => (chanBuf[s] = 1 \/ pc[s] = "changed"))
    /\ [][\A s \in Tickers :
            (dropped[s] /\ pc[s] # "select" /\ pc'[s] = "select")
                => ticker'[s] = cmFrequency']_vars

\* a subscriber woken by the one notification it got, after a later call's
\* notification was dropped, while still armed with another frequency
C11_Witness ==
    \E s \in changeChans :
        /\ dropped[s]
        /\ pc[s] = "changed"
        /\ chanBuf[s] = 0
        /\ ticker[s] # cmFrequency

\* C12: a call of SetLiveDataFrequency makes one send attempt per registered
\* subscriber: an empty slot gets one notification, an occupied slot gets
\* none (the send is dropped) and the other subscribers are still served;
\* channels that are not registered are left alone, and no channel ever
\* holds more than one notification.
C12_OneAttemptPerSubscriber ==
    /\ [](\A s \in Tickers : chanBuf[s] \in {0, 1})
    /\ [][SaveFrequency =>
            \A s \in Tickers :
                /\ (s \in changeChans /\ chanBuf[s] = 0)
                       => (chanBuf'[s] = 1 /\ dropped'[s] = dropped[s])
                /\ (s \in changeChans /\ chanBuf[s] = 1)
                       => (chanBuf'[s] = 1 /\ dropped'[s])
                /\ s \notin changeChans
                       => (chanBuf'[s] = chanBuf[s] /\ dropped'[s] = dropped[s])]_vars

\* two waiting subscribers after a call that dropped the notification of one
\* and delivered the other's
C12_Witness ==
    \E s, t \in changeChans :
        /\ pc[s] = "select" /\ pc[t] = "select"
        /\ chanBuf[s] = 1 /\ dropped[s]
        /\ chanBuf[t] = 1 /\ ~dropped[t]

(***************************************************************************)
(* Properties of the ticker goroutines.                                    *)
(***************************************************************************)
\* C13: a goroutine taking the changeCh case fetches nothing and leaves the
\* cache alone; from there it only reads the stored frequency and re-arms
\* its ticker with it, going back to its select with nothing queued.
C13_SignalOnlyRearms ==
    [][\A s \in Tickers :
          /\ (pc[s] = "select" /\ pc'[s] = "changed")
                => UNCHANGED <<cacheVars, cmFrequency, ticker, data>>
          /\ pc[s] = "changed" => pc'[s] \in {"changed", "select"}
          /\ (pc[s] = "changed" /\ pc'[s] = "select")
                => /\ ticker'[s] = cmFrequency'
                   /\ UNCHANGED <<cacheVars, cmFrequency, changeChans, chanBuf, data>>]_vars

\* the fetch ticker and the Live Data ticker have both taken the signal of
\* one call, with a stored snapshot in the cache
C13_Witness ==
    /\ pc[Fetcher] = "changed"
    /\ pc[LiveDataPoller] = "changed"
    /\ lastStored # ZeroLiveData
    /\ latestLiveData = lastStored

C15_FailedFetchKeepsArmedInterval ==
    [][(pc[Fetcher] = "failed" /\ pc'[Fetcher] = "select")
          => ticker'[Fetcher] = ticker[Fetcher]]_vars

\* C15 amended: a failed fetch changes neither the stored frequency nor, by
\* itself, the armed interval; the re-arm that follows uses the frequency
\* stored at that moment, so the armed interval stays what it was unless a
\* SetLiveDataFrequency stored another value since the ticker was armed.
C15_FailedFetchRearmsWithStored ==
    [][/\ (pc[Fetcher] = "fetch" /\ pc'[Fetcher] = "failed")
             => UNCHANGED <<ticker, cmFrequency>>
       /\ (pc[Fetcher] = "failed" /\ pc'[Fetcher] = "select")
             => /\ ticker'[Fetcher] = cmFrequency
                /\ UNCHANGED cmFrequency
                /\ ticker[Fetcher] = cmFrequency => ticker'[Fetcher] = ticker[Fetcher]]_vars

\* a fetch has failed with the ticker armed with the stored frequency and
\* no notification pending
C15_Witness ==
    /\ pc[Fetcher] = "failed"
    /\ ticker[Fetcher] = cmFrequency
    /\ chanBuf[Fetcher] = 0
    /\ Fetcher \in changeChans

\* C16: from the moment the fetch goroutine enters a fetch that fails until
\* it is back in its select, the cache and the stored frequency are not
\* changed by it; the error branch always leads back to the select, and the
\* goroutine never leaves its loop.
C16_FailedFetchLeavesCache ==
    /\ [](pc[Fetcher] \in {"none", "start", "subscribe", "select", "changed",
                           "fetch", "failed", "storing", "log"})
    /\ [](pc[Fetcher] = "failed" => ENABLED FetcherAfterError)
    /\ [][/\ (pc[Fetcher] = "fetch" /\ pc'[Fetcher] = "failed")
                => UNCHANGED <<latestLiveData, lastStored, liveDataMutex, cmFrequency>>
          /\ pc[Fetcher] = "failed" => pc'[Fetcher] \in {"failed", "select"}
          /\ pc[Fetcher] = "failed" => UNCHANGED <<latestLiveData, lastStored, liveDataMutex>>
          /\ (pc[Fetcher] = "failed" /\ pc'[Fetcher] = "select")
                => UNCHANGED cmFrequency]_vars

\* a fetch has failed while the cache holds a snapshot stored earlier
C16_Witness ==
    /\ pc[Fetcher] = "failed"
    /\ lastStored # ZeroLiveData
    /\ latestLiveData = lastStored
    /\ liveDataMutex = Nobody

\* C17 as claimed: a tab ticker whose context is cancelled while it waits
\* in its select starts no further tick (no read-and-display cycle), also
\* when its ticker has fired as well, and once returned it stays returned.
C17_NoTickOnceCancelled ==
    [][\A s \in Pollers :
          /\ (cancelled[s] /\ pc[s] = "select") => pc'[s] # "ui"
          /\ pc[s] = "done" => pc'[s] = "done"]_vars


\* the cancellation a ticker goroutine is to observe: the context of a tab
\* ticker (main.go:957, 1143); the fetch ticker of main is given no context
\* (main.go:1494-1520), the stop of the app is the only end of its owner
CancellationRaised(s) == IF s \in Pollers THEN cancelled[s] ELSE mainPc = "stopped"

\* C18: every ticker goroutine, the fetch ticker started in main included,
\* has a step from its select to its end that it can take once the
\* cancellation of its owner is raised.
C18_EveryTickerCancellable ==
    \A s \in Tickers :
        (pc[s] = "select" /\ CancellationRaised(s))
            => ENABLED (Next /\ pc'[s] = "done")


\* C19: the interval the ConfigManager holds is strictly positive in every
\* reachable state; it is the default until main has stored the loaded one.
C19_FrequencyPositive ==
    /\ cmFrequency > 0
    /\ mainPc \in {"update", "config"} => cmFrequency = defaultLiveDataFrequency

\* the app runs and a Save Frequency has stored a value other than the
\* default and signalled a subscriber
C19_Witness ==
    /\ mainPc = "run"
    /\ cmFrequency \in 1..MaxFrequency
    /\ \E s \in changeChans : chanBuf[s] = 1


(***************************************************************************)
(* Properties of the locks.                                                *)
(***************************************************************************)
\* C20: no lock is held across network I/O: while the fetch ticker is inside
\* fetchLiveData it holds neither liveDataMutex nor cm.mu, and while main is
\* at its startup calls of updateLocalHEXJSON (fetchHEXJSON) and
\* fetchLiveData both locks are free.
C20_NoLockAcrossFetch ==
    /\ pc[Fetcher] = "fetch" => (liveDataMutex # Fetcher /\ Fetcher \notin cmMu)
    /\ mainPc \in {"update", "fetch"} => (liveDataMutex = Nobody /\ cmMu = {})

\* the fetch ticker, which has stored a snapshot before, is inside
\* fetchLiveData while the UI thread holds cm.mu in SetLiveDataFrequency
C20_Witness ==
    /\ pc[Fetcher] = "fetch"
    /\ lastStored # ZeroLiveData
    /\ UIThread \in cmMu


(***************************************************************************)
(* Properties of the startup and of the refresh on errors.                 *)
(***************************************************************************)
\* C21: a startup refresh that returns an error (load, fetch or save) leaves
\* the persisted history holding the entries it held before the run.
C21_FailedRefreshKeepsHistory ==
    updateErr \in {"load", "fetch", "save"}
        => LoadedData(hexjsonFile) = LoadedData(prevFile)


\* C22: a run whose load fails returns that error having fetched nothing and
\* written nothing; a run whose fetch fails returns that error having
\* written nothing; in both cases the dataset file is as the run found it.
C22_ErrorLeavesDataset ==
    /\ updateErr = "load"
          => /\ hexjsonFile = prevFile
             /\ ~saveCalled
             /\ remoteData = <<>> /\ newEntries = <<>>
    /\ updateErr = "fetch"
          => /\ hexjsonFile = prevFile
             /\ ~saveCalled
             /\ ~LoadFails(prevFile, FALSE)
             /\ localData = LoadedData(prevFile)

\* a run found a dataset file that does not decode and returned the load error
C22_Witness ==
    /\ updateErr = "load"
    /\ prevFile.exists /\ ~prevFile.valid


\* C23: once the app has stopped, the ticker goroutine of every tab that was
\* built has had its context cancelled.
C23_StopCancelsEveryTab ==
    mainPc = "stopped" => \A s \in Pollers : pc[s] # "none" => cancelled[s]


\* C24: every ticker goroutine waiting in its select is armed with the
\* frequency the ConfigManager holds, or has a notification in its channel.
C24_ArmedWithStoredOrNotified ==
    \A s \in Tickers :
        pc[s] = "select" => (ticker[s] = cmFrequency \/ chanBuf[s] > 0)


(***************************************************************************)
(* Properties of the Save Frequency handler.                               *)
(***************************************************************************)
\* a step of the UI thread alone (no goroutine moves, main stays where it
\* is) that ends a Save Frequency with the input refused or saveConfig failed
RefusedStep ==
    /\ saveResult' \in {"invalid", "failed"}
    /\ pc' = pc
    /\ mainPc' = mainPc

\* C25: a Save Frequency that refuses its input or whose saveConfig fails
\* leaves the stored frequency, every subscriber's channel and every armed
\* ticker as they were; once the app runs, the stored frequency changes and
\* a channel gets a notification only in a Save Frequency that passed both
\* checks, and the value stored is positive.
C25_SetOnlyAfterSave ==
    [][/\ RefusedStep
            => UNCHANGED <<cmFrequency, changeChans, chanBuf, ticker>>
       /\ (mainPc = "run" /\ (cmFrequency' # cmFrequency
                                \/ \E s \in Tickers : chanBuf'[s] > chanBuf[s]))
            => (saveResult' = "set" /\ ValidFrequency(cmFrequency'))]_vars

\* a Save Frequency whose saveConfig failed, with a subscriber waiting in its
\* select with an armed ticker and an empty channel
C25_Witness ==
    /\ saveResult = "failed"
    /\ \E s \in changeChans : pc[s] = "select" /\ ticker[s] # 0 /\ chanBuf[s] = 0


\* where the next statement of ticker goroutine s is a call of
\* GetLiveDataFrequency or of Subscribe
CallPositions(s) ==
    GetPositions \cup {"subscribe"} \cup (IF s = Fetcher THEN {"log"} ELSE {})

\* C26: SetLiveDataFrequency, once it holds cm.mu, can always make its sends
\* and return, whatever the subscribers do and whatever their channels hold;
\* and a ticker goroutine that is to call GetLiveDataFrequency or Subscribe
\* always gets through its calls and back to its select.
C26_BroadcasterNeverBlocks ==
    /\ [](UIThread \in cmMu => ENABLED (MainSetUnlock \/ SaveFrequencyUnlock))
    /\ \A s \in LockTickers : (pc[s] \in CallPositions(s)) ~> (pc[s] = "select")

\* the UI thread holds cm.mu inside SetLiveDataFrequency while one
\* subscriber's slot is full and a goroutine waits for cm.mu
C26_Witness ==
    /\ mainPc = "notify"
    /\ \E s \in changeChans : chanBuf[s] = 1
    /\ \E t \in LockTickers : pc[t] \in GetPositions \cup {"subscribe"} /\ t \notin cmMu


(***************************************************************************)
(* Properties of the writers.                                              *)
(***************************************************************************)
\* C27: the cache changes only in a step of main's initial fetch or of the
\* fetch ticker's store; the stored frequency changes only in a call of
\* SetLiveDataFrequency, made by main at startup or by Save Frequency on
\* the UI thread; and no step of a tab's ticker (tick, UI update, change
\* signal, re-arm, return) changes the cache or the stored frequency.
C27_SingleWriter ==
    [][/\ latestLiveData' # latestLiveData
            => \/ mainPc = "fetch" /\ mainPc' = "go"
               \/ pc[Fetcher] = "fetch" /\ pc'[Fetcher] = "storing"
               \/ pc[Fetcher] = "storing" /\ pc'[Fetcher] = "log"
       /\ cmFrequency' # cmFrequency
            => \/ mainPc = "config" /\ mainPc' = "fetch"
               \/ mainPc = "run" /\ mainPc' = "run" /\ pc' = pc
       /\ \A s \in Pollers :
            pc'[s] # pc[s] => UNCHANGED <<latestLiveData, lastStored, cmFrequency>>]_vars

\* the Live Data tab's ticker has returned and the Profile tab's ticker has
\* taken a change signal, with a fetched snapshot in the cache and a
\* frequency stored by Save Frequency
C27_Witness ==
    /\ pc[LiveDataPoller] = "done"
    /\ pc[ProfilePoller] = "changed"
    /\ latestLiveData # ZeroLiveData
    /\ cmFrequency \in 1..MaxFrequency


\* the tab ticker goroutines of tab t that are started and whose context is
\* not cancelled
ActiveTabTickers(t) ==
    {i \in TabTickers : i[1] = t /\ tabPc[i] \in {"start", "subscribe", "select"}
                                  /\ i \notin tabCancelled}

\* the tab ticker goroutines of tab t that have subscribed and still receive
LiveSubscribers(t) ==
    {i \in TabTickers : i[1] = t /\ tabPc[i] = "select"}

\* C28: however often refreshTabs runs, at most one Profile ticker goroutine
\* and at most one Live Data ticker goroutine is active (started and not
\* cancelled), and at most one subscribed channel per tab still has a live
\* receiver: the goroutines of a replaced tab set do not stay running and
\* subscribed.
C28_OnePollerPerTab ==
    \A t \in Pollers :
        /\ Cardinality(ActiveTabTickers(t)) <= 1
        /\ Cardinality(LiveSubscribers(t)) <= 1

=============================================================================
